---- MODULE Spec2Model ----
(***************************************************************************)
(* Model of flow_log_parser.py: FlowLogParser loads a (port, protocol) ->  *)
(* tag lookup table from a CSV source, counts flow records per tag and per *)
(* (port, protocol) pair, and writes a two-section report.                 *)
(*                                                                         *)
(* Text is modelled character by character: a Python str is a sequence of  *)
(* one-character strings, so that strip, split, lower, int() and the       *)
(* f-string formatting are computed, not assumed.                          *)
(***************************************************************************)
EXTENDS Integers, Sequences, FiniteSets, TLC

VARIABLES lookup_file, flow_log, lookup_table, tag_counts,
          port_protocol_counts, output, pc, error

vars == <<lookup_file, flow_log, lookup_table, tag_counts,
          port_protocol_counts, output, pc, error>>

(* Bounds of the model: rows read from the lookup source, lines read from  *)
(* the flow-record source.                                                 *)
MaxRows == 3

MaxLines == 3

----------------------------------------------------------------------------
(* Python str primitives                                                   *)

(* None, as csv.DictReader's restval: no cell holds this value.            *)
None == <<"None">>

UpperCase == <<"A","B","C","D","E","F","G","H","I","J","K","L","M",
               "N","O","P","Q","R","S","T","U","V","W","X","Y","Z">>

LowerCase == <<"a","b","c","d","e","f","g","h","i","j","k","l","m",
               "n","o","p","q","r","s","t","u","v","w","x","y","z">>

Digits == <<"0","1","2","3","4","5","6","7","8","9">>

Index(seq, c) == CHOOSE i \in 1..Len(seq) : seq[i] = c

IsUpper(c) == \E i \in 1..Len(UpperCase) : UpperCase[i] = c

IsLower(c) == \E i \in 1..Len(LowerCase) : LowerCase[i] = c

IsDigit(c) == \E i \in 1..Len(Digits) : Digits[i] = c

(* str.isspace for the characters of the model                             *)
IsSpace(c) == c \in {" ", "\t", "\n"}

(* ord(c): the code point, which is what str comparison goes by            *)
Ord(c) ==
    IF IsUpper(c) THEN 64 + Index(UpperCase, c)
    ELSE IF IsLower(c) THEN 96 + Index(LowerCase, c)
    ELSE IF IsDigit(c) THEN 47 + Index(Digits, c)
    ELSE CASE c = "\t" -> 9
           [] c = "\n" -> 10
           [] c = " " -> 32
           [] c = "+" -> 43
           [] c = "," -> 44
           [] c = "-" -> 45
           [] c = "/" -> 47
           [] c = ":" -> 58
           [] c = "_" -> 95

(* str.lower()                                                             *)
Lower(s) ==
    [i \in 1..Len(s) |-> IF IsUpper(s[i]) THEN LowerCase[Index(UpperCase, s[i])]
                         ELSE s[i]]

RECURSIVE LStrip(_)
LStrip(s) == IF s # <<>> /\ IsSpace(Head(s)) THEN LStrip(Tail(s)) ELSE s

RECURSIVE RStrip(_)
RStrip(s) ==
    IF s # <<>> /\ IsSpace(s[Len(s)]) THEN RStrip(SubSeq(s, 1, Len(s) - 1)) ELSE s

(* str.strip()                                                             *)
Strip(s) == RStrip(LStrip(s))

(* str.split(): tokens between runs of whitespace, none of them empty.     *)
(* cur is the token being read.                                            *)
RECURSIVE SplitFrom(_, _)
SplitFrom(s, cur) ==
    IF s = <<>> THEN (IF cur = <<>> THEN <<>> ELSE <<cur>>)
    ELSE IF IsSpace(Head(s))
         THEN (IF cur = <<>> THEN SplitFrom(Tail(s), <<>>)
               ELSE <<cur>> \o SplitFrom(Tail(s), <<>>))
         ELSE SplitFrom(Tail(s), Append(cur, Head(s)))

Split(s) == SplitFrom(s, <<>>)

(* Lexicographic str comparison a < b, by code point                       *)
RECURSIVE StrLess(_, _)
StrLess(a, b) ==
    IF b = <<>> THEN FALSE
    ELSE IF a = <<>> THEN TRUE
    ELSE IF Head(a) = Head(b) THEN StrLess(Tail(a), Tail(b))
    ELSE Ord(Head(a)) < Ord(Head(b))

(* int(s): surrounding whitespace is dropped, then an optional sign, then  *)
(* digits, single underscores allowed between digits.  ok = FALSE is       *)
(* ValueError.                                                             *)
RECURSIVE DigitsValue(_, _)
DigitsValue(s, acc) ==
    IF s = <<>> THEN acc
    ELSE IF Head(s) = "_" THEN DigitsValue(Tail(s), acc)
    ELSE DigitsValue(Tail(s), 10 * acc + (Index(Digits, Head(s)) - 1))

IsDigitString(s) ==
    /\ s # <<>>
    /\ IsDigit(s[1])
    /\ IsDigit(s[Len(s)])
    /\ \A i \in 1..Len(s) : IsDigit(s[i]) \/ s[i] = "_"
    /\ \A i \in 1..(Len(s) - 1) : ~(s[i] = "_" /\ s[i + 1] = "_")

PyInt(s) ==
    LET t == Strip(s)
        signed == t # <<>> /\ t[1] \in {"+", "-"}
        body == IF signed THEN Tail(t) ELSE t
    IN  IF IsDigitString(body)
        THEN [ok |-> TRUE,
              val |-> IF signed /\ t[1] = "-" THEN 0 - DigitsValue(body, 0)
                      ELSE DigitsValue(body, 0)]
        ELSE [ok |-> FALSE, val |-> 0]

(* f"{n}" of an int                                                        *)
RECURSIVE NatStr(_)
NatStr(n) == IF n < 10 THEN <<Digits[n + 1]>>
             ELSE Append(NatStr(n \div 10), Digits[(n % 10) + 1])

IntStr(n) == IF n < 0 THEN <<"-">> \o NatStr(0 - n) ELSE NatStr(n)

(* dict operations on a function whose domain is the set of keys present   *)
DictSet(d, k, v) == [x \in DOMAIN d \cup {k} |-> IF x = k THEN v ELSE d[x]]

DictGet(d, k, default) == IF k \in DOMAIN d THEN d[k] ELSE default

----------------------------------------------------------------------------
(* load_lookup_table                                                       *)

(* The header row of the lookup source, as csv.DictReader reads it         *)
fieldnames == <<"dstport", "protocol", "tag">>

(* csv.reader on one line without quoting: the cells between commas; an    *)
(* empty line is the empty row.                                            *)
RECURSIVE CsvFrom(_, _)
CsvFrom(s, cur) ==
    IF s = <<>> THEN <<cur>>
    ELSE IF Head(s) = "," THEN <<cur>> \o CsvFrom(Tail(s), <<>>)
    ELSE CsvFrom(Tail(s), Append(cur, Head(s)))

CsvCells(line) == IF line = <<>> THEN <<>> ELSE CsvFrom(line, <<>>)

(* csv.DictReader: a cell per field name, None (restval) for a field the   *)
(* row is too short for; cells beyond the header go under restkey and are  *)
(* never read.                                                             *)
DictRow(cells) ==
    [f \in {fieldnames[i] : i \in 1..Len(fieldnames)} |->
        LET i == Index(fieldnames, f)
        IN  IF i <= Len(cells) THEN cells[i] ELSE None]

(* self.lookup_table[(dstport, protocol)] = tag.lower()                    *)
StoreTagFirst(table, key, tag) ==
    IF key \in DOMAIN table THEN table ELSE DictSet(table, key, Lower(tag))

StoreTagVerbatim(table, key, tag) == DictSet(table, key, tag)

StoreTag(table, key, tag) == DictSet(table, key, Lower(tag))

(* One iteration of the loop over the reader.  int(None) raises TypeError  *)
(* and None.lower() / None.strip() raise AttributeError: neither is caught *)
(* by except (ValueError, KeyError), so they leave load_lookup_table and   *)
(* the constructor.                                                        *)
LoadRow(table, line) ==
    LET cells == CsvCells(line)
        row == DictRow(cells)
        dstport == PyInt(row["dstport"])
    IN  IF cells = <<>>
        THEN [lookup_table |-> table, pc |-> "load", error |-> "none"]
        ELSE IF row["dstport"] = None
        THEN [lookup_table |-> table, pc |-> "crashed", error |-> "TypeError"]
        ELSE IF ~dstport.ok
        THEN [lookup_table |-> table, pc |-> "load", error |-> "none"]
        ELSE IF row["protocol"] = None \/ row["tag"] = None
        THEN [lookup_table |-> table, pc |-> "crashed",
              error |-> "AttributeError"]
        ELSE [lookup_table |->
                  StoreTag(table,
                           <<dstport.val, Strip(Lower(row["protocol"]))>>,
                           Strip(row["tag"])),
              pc |-> "load", error |-> "none"]

----------------------------------------------------------------------------
(* parse_flow_log                                                          *)

MinFields == 14

PortField == 6

ProtocolField == 8

Untagged == <<"U","n","t","a","g","g","e","d">>

(* _get_protocol_name                                                      *)
ProtocolName(protocol_num) ==
    Lower(CASE protocol_num = 1 -> <<"i","c","m","p">>
            [] protocol_num = 6 -> <<"t","c","p">>
            [] protocol_num = 17 -> <<"u","d","p">>
            [] OTHER -> <<"u","n","k","n","o","w","n">>)

(* The two defaultdict increments and the lookup between them.  self is    *)
(* the parser: its lookup_table, tag_counts and port_protocol_counts.      *)
CountRecordLowerDefault(self, dst_port, protocol) ==
    LET key == <<dst_port, protocol>>
        tag == DictGet(self.lookup_table, key, Lower(Untagged))
    IN  [self EXCEPT
            !.port_protocol_counts =
                DictSet(@, key, DictGet(@, key, 0) + 1),
            !.tag_counts = DictSet(@, tag, DictGet(@, tag, 0) + 1)]

CountRecordSetDefault(self, dst_port, protocol) ==
    LET key == <<dst_port, protocol>>
        tag == DictGet(self.lookup_table, key, Untagged)
    IN  [self EXCEPT
            !.port_protocol_counts =
                DictSet(@, key, DictGet(@, key, 0) + 1),
            !.lookup_table = DictSet(@, key, tag),
            !.tag_counts = DictSet(@, tag, DictGet(@, tag, 0) + 1)]

CountRecordMatchedOnly(self, dst_port, protocol) ==
    LET key == <<dst_port, protocol>>
    IN  [self EXCEPT
            !.port_protocol_counts =
                DictSet(@, key, DictGet(@, key, 0) + 1),
            !.tag_counts =
                IF key \in DOMAIN self.lookup_table
                THEN DictSet(@, self.lookup_table[key],
                             DictGet(@, self.lookup_table[key], 0) + 1)
                ELSE @]

CountRecord(self, dst_port, protocol) ==
    LET key == <<dst_port, protocol>>
        tag == DictGet(self.lookup_table, key, Untagged)
    IN  [self EXCEPT
            !.port_protocol_counts =
                DictSet(@, key, DictGet(@, key, 0) + 1),
            !.tag_counts = DictSet(@, tag, DictGet(@, tag, 0) + 1)]

(* Where a continue statement leaves the loop over the lines: at its head, *)
(* ready for the next line.                                                *)
Break == "write"

Continue == "parse"

(* The first half of the body of the loop over the lines, which reads no   *)
(* state: strip, split, the field count and the two int() calls, both      *)
(* evaluated before the first increment.  ok = FALSE is a line the loop    *)
(* skips with continue.                                                    *)
ParseFieldsUnknownProtocol(line) ==
    LET stripped == Strip(line)
        fields == Split(stripped)
    IN  IF stripped = <<>> \/ Len(fields) < MinFields
        THEN [ok |-> FALSE, dst_port |-> 0, protocol |-> <<>>]
        ELSE LET dst_port == PyInt(fields[PortField])
                 protocol_num == PyInt(fields[ProtocolField])
             IN  IF ~dst_port.ok
                 THEN [ok |-> FALSE, dst_port |-> 0, protocol |-> <<>>]
                 ELSE [ok |-> TRUE, dst_port |-> dst_port.val,
                       protocol |-> IF protocol_num.ok
                                    THEN ProtocolName(protocol_num.val)
                                    ELSE ProtocolName(0)]

ParseFields(line) ==
    LET stripped == Strip(line)
        fields == Split(stripped)
    IN  IF stripped = <<>>
        THEN [ok |-> FALSE, dst_port |-> 0, protocol |-> <<>>]
        ELSE IF Len(fields) < MinFields
        THEN [ok |-> FALSE, dst_port |-> 0, protocol |-> <<>>]
        ELSE LET dst_port == PyInt(fields[PortField])
                 protocol_num == PyInt(fields[ProtocolField])
             IN  IF ~dst_port.ok \/ ~protocol_num.ok
                 THEN [ok |-> FALSE, dst_port |-> 0, protocol |-> <<>>]
                 ELSE [ok |-> TRUE, dst_port |-> dst_port.val,
                       protocol |-> ProtocolName(protocol_num.val)]

----------------------------------------------------------------------------
(* write_results                                                           *)

TagCountsTitle == <<"T","a","g"," ","C","o","u","n","t","s",":">>

TagCountsHeader == <<"T","a","g",",","C","o","u","n","t">>

PortProtocolTitle == <<"P","o","r","t","/","P","r","o","t","o","c","o",
                     "l"," ","C","o","m","b","i","n","a","t","i","o",
                     "n"," ","C","o","u","n","t","s",":">>

PortProtocolHeader == <<"P","o","r","t",",","P","r","o","t","o","c",
                      "o","l",",","C","o","u","n","t">>

(* dict.items(): the (key, value) pairs                                    *)
Items(d) == {<<k, d[k]>> : k \in DOMAIN d}

(* Tuple comparison of two (tag, count) items                              *)
TagItemLess(a, b) == StrLess(a[1], b[1]) \/ (a[1] = b[1] /\ a[2] < b[2])

(* Tuple comparison of two (port, protocol) keys: int, then str            *)
KeyLessAsText(a, b) ==
    StrLess(IntStr(a[1]), IntStr(b[1])) \/ (a[1] = b[1] /\ StrLess(a[2], b[2]))

KeyLess(a, b) == a[1] < b[1] \/ (a[1] = b[1] /\ StrLess(a[2], b[2]))

(* Tuple comparison of two ((port, protocol), count) items                 *)
PortItemLess(a, b) == KeyLess(a[1], b[1]) \/ (a[1] = b[1] /\ a[2] < b[2])

(* sorted(self.tag_counts.items())                                         *)
RECURSIVE SortedTagItems(_)
SortedTagItems(S) ==
    IF S = {} THEN <<>>
    ELSE LET m == CHOOSE x \in S : \A y \in S \ {x} : TagItemLess(x, y)
         IN  <<m>> \o SortedTagItems(S \ {m})

(* sorted(self.port_protocol_counts.items())                               *)
RECURSIVE SortedPortItems(_)
SortedPortItems(S) ==
    IF S = {} THEN <<>>
    ELSE LET m == CHOOSE x \in S : \A y \in S \ {x} : PortItemLess(x, y)
         IN  <<m>> \o SortedPortItems(S \ {m})

(* f"{tag},{count}\n"                                                      *)
TagRow(item) == item[1] \o <<",">> \o IntStr(item[2]) \o <<"\n">>

(* f"{port},{protocol},{count}\n"                                          *)
PortRow(item) ==
    IntStr(item[1][1]) \o <<",">> \o item[1][2] \o <<",">> \o IntStr(item[2])
        \o <<"\n">>

RECURSIVE Concat(_)
Concat(ss) == IF ss = <<>> THEN <<>> ELSE Head(ss) \o Concat(Tail(ss))

(* Everything write_results writes to the file, in order                   *)
Report(tags, ports) ==
    TagCountsTitle \o <<"\n">> \o TagCountsHeader \o <<"\n">>
        \o Concat([i \in 1..Cardinality(Items(tags)) |->
                      TagRow(SortedTagItems(Items(tags))[i])])
        \o <<"\n">> \o PortProtocolTitle \o <<"\n">>
        \o PortProtocolHeader \o <<"\n">>
        \o Concat([i \in 1..Cardinality(Items(ports)) |->
                      PortRow(SortedPortItems(Items(ports))[i])])

----------------------------------------------------------------------------
(* Inputs                                                                  *)

(* Data rows of the lookup source: valid rows, a row that repeats a key in *)
(* another case and with blanks around the cells, a tag spelled like the   *)
(* default, a negative port, a port that is no number, a row one cell      *)
(* short, an empty line.                                                   *)
LookupRows == {
    <<"8","0",",","t","c","p",",","w","e","b">>,
    <<" ","8","0"," ",","," ","T","C","P"," ",","," ","D","n","s",
      " ">>,
    <<"4","4","3",",","t","c","p",",","U","n","t","a","g","g","e",
      "d">>,
    <<"-","8","0",",","u","d","p",",","d","n","s">>,
    <<"x",",","t","c","p",",","w","e","b">>,
    <<"8","0",",","t","c","p">>,
    <<>>}

(* Lines of the flow log: records on tcp, udp, icmp and an unlisted        *)
(* protocol number, a negative port, a port and a protocol that are no     *)
(* numbers, a blank line, a line of 13 fields, a line of 15 fields with    *)
(* irregular spacing.                                                      *)
FlowLines == {
    <<"2"," ","a"," ","e"," ","s"," ","d"," ","8","0"," ","1"," ",
      "6"," ","1"," ","1"," ","1"," ","1"," ","A"," ","O">>,
    <<"2"," ","a"," ","e"," ","s"," ","d"," ","4","4","3"," ","1",
      " ","6"," ","1"," ","1"," ","1"," ","1"," ","A"," ","O">>,
    <<"2"," ","a"," ","e"," ","s"," ","d"," ","8","0"," ","1"," ",
      "9","9"," ","1"," ","1"," ","1"," ","1"," ","A"," ","O">>,
    <<"2"," ","a"," ","e"," ","s"," ","d"," ","-","8","0"," ","1",
      " ","1","7"," ","1"," ","1"," ","1"," ","1"," ","A"," ","O">>,
    <<"2"," ","a"," ","e"," ","s"," ","d"," ","x"," ","1"," ","6",
      " ","1"," ","1"," ","1"," ","1"," ","A"," ","O">>,
    <<"2"," ","a"," ","e"," ","s"," ","d"," ","8","0"," ","1"," ",
      "x"," ","1"," ","1"," ","1"," ","1"," ","A"," ","O">>,
    <<" "," ">>,
    <<"2"," ","a"," ","e"," ","s"," ","d"," ","8","0"," ","1"," ",
      "6"," ","1"," ","1"," ","1"," ","1"," ","A">>,
    <<"\t","2"," "," ","a"," ","e"," ","s"," ","d"," ","5","3"," ",
      "1"," ","1"," ","1"," ","1"," ","1"," ","1"," ","A"," ","O"," ",
      "X","\n">>}

(* ParseFields on each line of the model, evaluated once                   *)
FlowLineFields == [line \in FlowLines |-> ParseFields(line)]

(* The body of the loop over the lines of the flow log, for one line       *)
ParseLine(self, line) ==
    LET f == FlowLineFields[line]
    IN  IF ~f.ok THEN [self |-> self, pc |-> Continue]
        ELSE [self |-> CountRecord(self, f.dst_port, f.protocol),
              pc |-> "parse"]

----------------------------------------------------------------------------
(* The run of main(): FlowLogParser(lookup_file), parse_flow_log,          *)
(* write_results.                                                          *)

Init ==
    /\ lookup_file = <<>>
    /\ flow_log = <<>>
    /\ lookup_table = <<>>
    /\ tag_counts = <<>>
    /\ port_protocol_counts = <<>>
    /\ output = <<>>
    /\ pc = "load"
    /\ error = "none"

(* load_lookup_table reads one more row of the lookup source               *)
LoadLookupRow ==
    /\ pc = "load"
    /\ Len(lookup_file) < MaxRows
    /\ \E line \in LookupRows :
          LET r == LoadRow(lookup_table, line)
          IN  /\ lookup_file' = Append(lookup_file, line)
              /\ lookup_table' = r.lookup_table
              /\ pc' = r.pc
              /\ error' = r.error
    /\ UNCHANGED <<flow_log, tag_counts, port_protocol_counts, output>>

(* The lookup source is exhausted: the file is closed, the constructor     *)
(* returns and parse_flow_log opens the flow log.                          *)
LoadLookupDone ==
    /\ pc = "load"
    /\ pc' = "parse"
    /\ lookup_file' = <<>>
    /\ UNCHANGED <<flow_log, lookup_table, tag_counts, port_protocol_counts,
                   output, error>>

(* parse_flow_log reads one more line of the flow log                      *)
ParseFlowLogLine ==
    /\ pc = "parse"
    /\ Len(flow_log) < MaxLines
    /\ \E line \in FlowLines :
          LET r == ParseLine([lookup_table |-> lookup_table,
                              tag_counts |-> tag_counts,
                              port_protocol_counts |-> port_protocol_counts],
                             line)
          IN  /\ flow_log' = Append(flow_log, line)
              /\ lookup_table' = r.self.lookup_table
              /\ tag_counts' = r.self.tag_counts
              /\ port_protocol_counts' = r.self.port_protocol_counts
              /\ pc' = r.pc
    /\ UNCHANGED <<lookup_file, output, error>>

(* The flow log is exhausted: the file is closed and parse_flow_log        *)
(* returns.                                                                *)
ParseFlowLogDone ==
    /\ pc = "parse"
    /\ pc' = "write"
    /\ flow_log' = <<>>
    /\ UNCHANGED <<lookup_file, lookup_table, tag_counts,
                   port_protocol_counts, output, error>>

WriteResults ==
    /\ pc = "write"
    /\ output' = Report(tag_counts, port_protocol_counts)
    /\ pc' = "done"
    /\ UNCHANGED <<lookup_file, flow_log, lookup_table, tag_counts,
                   port_protocol_counts, error>>

(* parse_flow_log as a whole, on a sequence of lines: the loop runs the    *)
(* body on each line in turn, for as long as the body returns to its head. *)
RECURSIVE ParseFlowLog(_, _)
ParseFlowLog(self, lines) ==
    IF lines = <<>> THEN self
    ELSE LET r == ParseLine(self, Head(lines))
         IN  IF r.pc = "parse" THEN ParseFlowLog(r.self, Tail(lines))
             ELSE r.self

Next ==
    \/ LoadLookupRow
    \/ LoadLookupDone
    \/ ParseFlowLogLine
    \/ ParseFlowLogDone
    \/ WriteResults

Spec == Init /\ [][Next]_vars

----------------------------------------------------------------------------
(* Vocabulary of the properties                                            *)

(* The whitespace-separated tokens of a line                               *)
Tokens(line) == Split(Strip(line))

(* The records that parse: 14 tokens or more, integers at tokens 6 and 8   *)
WellFormedLines ==
    {line \in FlowLines :
        /\ Len(Tokens(line)) >= 14
        /\ PyInt(Tokens(line)[6]).ok
        /\ PyInt(Tokens(line)[8]).ok}

WellFormed(line) == line \in WellFormedLines

(* A token no integer can be written with                                  *)
NonNumeric(token) ==
    \E i \in 1..Len(token) : ~IsDigit(token[i]) /\ token[i] \notin {"+", "-", "_"}

(* The malformed records: blank, short, or not a number at token 6 or 8    *)
MalformedLines ==
    {line \in FlowLines :
        \/ Strip(line) = <<>>
        \/ Len(Tokens(line)) < 14
        \/ NonNumeric(Tokens(line)[6])
        \/ NonNumeric(Tokens(line)[8])}

Malformed(line) == line \in MalformedLines

(* The protocol table of the specification                                 *)
NameOf(n) ==
    IF n = 1 THEN <<"i","c","m","p">>
    ELSE IF n = 6 THEN <<"t","c","p">>
    ELSE IF n = 17 THEN <<"u","d","p">>
    ELSE <<"u","n","k","n","o","w","n">>

(* The (port, protocol name) pair of a well-formed record                  *)
KeyOfLine ==
    [line \in WellFormedLines |->
        <<PyInt(Tokens(line)[6]).val, NameOf(PyInt(Tokens(line)[8]).val)>>]

KeyOf(line) == KeyOfLine[line]

(* The count of key k in mapping d, 0 when k is absent                     *)
CountOf(d, k) == IF k \in DOMAIN d THEN d[k] ELSE 0

RECURSIVE SumOver(_, _)
SumOver(d, keys) ==
    IF keys = {} THEN 0
    ELSE LET k == CHOOSE x \in keys : TRUE
         IN  d[k] + SumOver(d, keys \ {k})

(* The sum of all counts of a mapping                                      *)
Total(d) == SumOver(d, DOMAIN d)

(* The mapping d2 is d1 with the count of k raised by one and nothing      *)
(* else changed.                                                           *)
IncrementedAt(d1, d2, k) ==
    /\ DOMAIN d2 = DOMAIN d1 \cup {k}
    /\ d2[k] = CountOf(d1, k) + 1
    /\ \A x \in DOMAIN d1 : x # k => d2[x] = d1[x]

IsLowerCase(s) == \A i \in 1..Len(s) : ~IsUpper(s[i])

(* A step that reads one line of the flow log, and the line read           *)
ReadsLine == pc = "parse" /\ Len(flow_log') = Len(flow_log) + 1

LineRead == flow_log'[Len(flow_log')]

(* The cells of a lookup row, and the rows that make an entry              *)
HasAllFields(row) == Len(CsvCells(row)) >= 3

ValidRow(row) == HasAllFields(row) /\ PyInt(CsvCells(row)[1]).ok

RowKey(row) ==
    <<PyInt(CsvCells(row)[1]).val, Lower(Strip(CsvCells(row)[2]))>>

RowTag(row) == Lower(Strip(CsvCells(row)[3]))

(* The table a sequence of rows stands for: per key present in a valid     *)
(* row, the tag of the last valid row with that key.                       *)
LastWins(rows) ==
    LET valid == {i \in 1..Len(rows) : ValidRow(rows[i])}
        last(k) == CHOOSE i \in valid :
                      /\ RowKey(rows[i]) = k
                      /\ \A j \in valid : RowKey(rows[j]) = k => j <= i
    IN  [k \in {RowKey(rows[i]) : i \in valid} |-> RowTag(rows[last(k)])]

(* The lines of a text: the pieces that end with a newline, without it     *)
TextLines(s) ==
    LET ends == {i \in 1..Len(s) : s[i] = "\n"}
        end(k) == CHOOSE i \in ends : Cardinality({j \in ends : j < i}) = k - 1
        start(k) == IF k = 1 THEN 1 ELSE end(k - 1) + 1
    IN  [k \in 1..Cardinality(ends) |-> SubSeq(s, start(k), end(k) - 1)]

(* The place of a tag, and of a (port, protocol) key, in ascending order   *)
TagRank(t) == Cardinality({u \in DOMAIN tag_counts : StrLess(u, t)}) + 1

KeyRank(k) ==
    Cardinality({j \in DOMAIN port_protocol_counts :
                    j[1] < k[1] \/ (j[1] = k[1] /\ StrLess(j[2], k[2]))}) + 1

(* The rearrangements of a sequence                                        *)
Rearrangements(s) ==
    {[i \in 1..Len(s) |-> s[f[i]]] : f \in Permutations(1..Len(s))}

Fresh == [lookup_table |-> lookup_table, tag_counts |-> <<>>,
          port_protocol_counts |-> <<>>]

----------------------------------------------------------------------------
(* C1: a step that reads a well-formed record raises the count of its      *)
(* (port, protocol name) pair by exactly one and the count of its tag by   *)
(* exactly one and changes no other entry; the name is icmp, tcp, udp for  *)
(* 1, 6, 17 and unknown otherwise; the tag is the table's tag, which is in *)
(* lower case, when the pair is a key of the table, and 'Untagged'         *)
(* otherwise.                                                              *)
C1_WellFormedRecordCounted ==
    [][(ReadsLine /\ WellFormed(LineRead)) =>
          LET key == KeyOf(LineRead)
              tag == IF key \in DOMAIN lookup_table
                     THEN lookup_table[key]
                     ELSE <<"U","n","t","a","g","g","e","d">>
          IN  /\ IncrementedAt(port_protocol_counts, port_protocol_counts', key)
              /\ IncrementedAt(tag_counts, tag_counts', tag)
              /\ key \in DOMAIN lookup_table => IsLowerCase(tag)]_vars

(* A matched and an unmatched record have been counted, on a protocol      *)
(* number outside the table among them.                                    *)
C1_Witness ==
    /\ pc = "parse"
    /\ \E i \in 1..Len(flow_log) :
          WellFormed(flow_log[i]) /\ KeyOf(flow_log[i]) \in DOMAIN lookup_table
    /\ \E i \in 1..Len(flow_log) :
          /\ WellFormed(flow_log[i])
          /\ KeyOf(flow_log[i]) \notin DOMAIN lookup_table
          /\ KeyOf(flow_log[i])[2] = <<"u","n","k","n","o","w","n">>
    /\ CountOf(tag_counts, Untagged) >= 1

(* C2: a step that reads a malformed record (blank after trimming, fewer   *)
(* than 14 tokens, or a non-numeric token at position 6 or 8) leaves both  *)
(* count mappings as they were and the loop goes on to the next line.      *)
C2_MalformedRecordIgnored ==
    [][(ReadsLine /\ Malformed(LineRead)) =>
          /\ tag_counts' = tag_counts
          /\ port_protocol_counts' = port_protocol_counts
          /\ pc' = "parse"]_vars

(* A record with a valid port and a non-numeric protocol has been read     *)
(* after a record that was counted, and another line has been read after   *)
(* it.                                                                     *)
C2_Witness ==
    /\ pc = "parse"
    /\ Len(flow_log) = 3
    /\ WellFormed(flow_log[1])
    /\ Malformed(flow_log[2])
    /\ Len(Tokens(flow_log[2])) >= 14
    /\ PyInt(Tokens(flow_log[2])[6]).ok
    /\ NonNumeric(Tokens(flow_log[2])[8])
    /\ Total(port_protocol_counts) >= 1

(* C3: while the lookup source is read, the table holds exactly one entry  *)
(* per key found in a valid row, with the trimmed, lowercased tag of the   *)
(* last such row; and the loader fails only on a row that lacks a field,   *)
(* never on a repeated key.                                                *)
C3_LastRowWins ==
    /\ pc = "load" => lookup_table = LastWins(lookup_file)
    /\ pc = "crashed" => ~HasAllFields(lookup_file[Len(lookup_file)])

(* Two valid rows with the same key and different tags have been loaded.   *)
C3_Witness ==
    /\ pc = "load"
    /\ \E i, j \in 1..Len(lookup_file) :
          /\ i < j
          /\ ValidRow(lookup_file[i])
          /\ ValidRow(lookup_file[j])
          /\ lookup_file[i] # lookup_file[j]
          /\ RowKey(lookup_file[i]) = RowKey(lookup_file[j])
          /\ RowTag(lookup_file[i]) # RowTag(lookup_file[j])
          /\ \A k \in (j + 1)..Len(lookup_file) : ~ValidRow(lookup_file[k])
          /\ lookup_table[RowKey(lookup_file[j])] = RowTag(lookup_file[j])

(* C4: a lookup row that lacks one of the three fields is skipped: the     *)
(* loader does not fail and the table is the one the other rows make.      *)
C4_ShortRowSkipped ==
    (\E i \in 1..Len(lookup_file) :
        lookup_file[i] # <<>> /\ ~HasAllFields(lookup_file[i]))
    => /\ pc # "crashed"
       /\ error = "none"
       /\ lookup_table = LastWins(lookup_file)

(* C5: the report is the line 'Tag Counts:', the line 'Tag,Count', a row   *)
(* per tag in ascending order of the tag, one blank line, the line         *)
(* 'Port/Protocol Combination Counts:', the line 'Port,Protocol,Count' and *)
(* a row per (port, protocol) pair in ascending order of the numeric port  *)
(* and then of the protocol; every entry is written once and nothing else  *)
(* is written.                                                             *)
C5_ReportFormat ==
    pc = "done" =>
        LET L == TextLines(output)
            n == Cardinality(DOMAIN tag_counts)
            m == Cardinality(DOMAIN port_protocol_counts)
        IN  /\ output # <<>> /\ output[Len(output)] = "\n"
            /\ Len(L) = n + m + 5
            /\ L[1] = TagCountsTitle
            /\ L[2] = TagCountsHeader
            /\ \A t \in DOMAIN tag_counts :
                  L[2 + TagRank(t)] = t \o <<",">> \o IntStr(tag_counts[t])
            /\ L[n + 3] = <<>>
            /\ \A i \in 1..Len(L) : L[i] = <<>> => i = n + 3
            /\ L[n + 4] = PortProtocolTitle
            /\ L[n + 5] = PortProtocolHeader
            /\ \A k \in DOMAIN port_protocol_counts :
                  L[n + 5 + KeyRank(k)] =
                      IntStr(k[1]) \o <<",">> \o k[2] \o <<",">>
                          \o IntStr(port_protocol_counts[k])

(* A report has been written with several tags and with ports 80 and 443,  *)
(* whose numeric order is not the order of their digits.                   *)
C5_Witness ==
    /\ pc = "done"
    /\ Cardinality(DOMAIN tag_counts) >= 2
    /\ \E j, k \in DOMAIN port_protocol_counts : j[1] = 80 /\ k[1] = 443

(* C6: the counts reached by reading the lines of the flow log are the     *)
(* counts parse_flow_log ends with on every rearrangement of those lines.  *)
C6_OrderIndependent ==
    flow_log # <<>> =>
        \A p \in Rearrangements(flow_log) :
            LET end == ParseFlowLog(Fresh, p)
            IN  /\ end.tag_counts = tag_counts
                /\ end.port_protocol_counts = port_protocol_counts

(* Three lines have been read, a malformed one between two records with    *)
(* different keys.                                                         *)
C6_Witness ==
    /\ pc = "parse"
    /\ Len(flow_log) = 3
    /\ WellFormed(flow_log[1])
    /\ Malformed(flow_log[2])
    /\ WellFormed(flow_log[3])
    /\ KeyOf(flow_log[1]) # KeyOf(flow_log[3])

(* C7: no key of the lookup table and no key of the port/protocol counts   *)
(* has a negative port.                                                    *)
C7_NoNegativePort ==
    /\ \A k \in DOMAIN lookup_table : k[1] >= 0
    /\ \A k \in DOMAIN port_protocol_counts : k[1] >= 0

(* C8: once the constructor has returned, no step changes the lookup       *)
(* table, and write_results changes neither count mapping.                 *)
C8_LookupTableReadOnly ==
    [][/\ pc \in {"parse", "write", "done"} => lookup_table' = lookup_table
       /\ pc = "write" =>
             /\ tag_counts' = tag_counts
             /\ port_protocol_counts' = port_protocol_counts]_vars

(* The report has been written after an unmatched record was counted       *)
(* against a table that is not empty.                                      *)
C8_Witness ==
    /\ pc = "done"
    /\ output # <<>>
    /\ DOMAIN lookup_table # {}
    /\ CountOf(tag_counts, Untagged) >= 1
    /\ \E k \in DOMAIN port_protocol_counts : k \notin DOMAIN lookup_table

(* C9: the counts of the tags and the counts of the (port, protocol)       *)
(* pairs have the same sum, which during the pass is the number of         *)
(* well-formed records read so far; every entry present is at least 1.     *)
C9_SumsAgree ==
    /\ Total(tag_counts) = Total(port_protocol_counts)
    /\ pc = "parse" =>
          Total(tag_counts) =
              Cardinality({i \in 1..Len(flow_log) : WellFormed(flow_log[i])})
    /\ \A t \in DOMAIN tag_counts : tag_counts[t] >= 1
    /\ \A k \in DOMAIN port_protocol_counts : port_protocol_counts[k] >= 1

(* Three lines have been read: two records with the same key, one matched  *)
(* or not, and a malformed line.                                           *)
C9_Witness ==
    /\ pc = "parse"
    /\ Len(flow_log) = 3
    /\ Cardinality({i \in 1..3 : WellFormed(flow_log[i])}) = 2
    /\ \E k \in DOMAIN port_protocol_counts : port_protocol_counts[k] = 2
    /\ CountOf(tag_counts, Untagged) = 2

(* C10: no tag of the lookup table is 'Untagged'; during the pass the      *)
(* count of 'Untagged' is the number of well-formed records read whose     *)
(* (port, protocol name) pair is no key of the table; with an empty table  *)
(* no other tag is counted.                                                *)
C10_UntaggedIsUnmatched ==
    /\ \A k \in DOMAIN lookup_table :
          lookup_table[k] # <<"U","n","t","a","g","g","e","d">>
    /\ pc = "parse" =>
          CountOf(tag_counts, <<"U","n","t","a","g","g","e","d">>) =
              Cardinality({i \in 1..Len(flow_log) :
                              /\ WellFormed(flow_log[i])
                              /\ KeyOf(flow_log[i]) \notin DOMAIN lookup_table})
    /\ DOMAIN lookup_table = {} =>
          DOMAIN tag_counts \subseteq {<<"U","n","t","a","g","g","e","d">>}

(* A row tagged 'Untagged' was loaded, a record matched it and another     *)
(* record matched nothing.                                                 *)
C10_Witness ==
    /\ pc = "parse"
    /\ \E k \in DOMAIN lookup_table :
          lookup_table[k] = <<"u","n","t","a","g","g","e","d">>
    /\ CountOf(tag_counts, <<"u","n","t","a","g","g","e","d">>) >= 1
    /\ CountOf(tag_counts, <<"U","n","t","a","g","g","e","d">>) >= 1

====
